---------------------------- MODULE Spec2Model ----------------------------
(***************************************************************************)
(* The review scheduler of word_mem.py: the user_word_progress and         *)
(* study_records tables, UserDatabase.update_word_progress (the "advance"  *)
(* transition), UserDatabase.get_words_for_review (the due query) and the  *)
(* wall clock both of them read with datetime.now().                       *)
(*                                                                         *)
(* Time is counted in minutes.  The timestamps are stored as the text      *)
(* 'YYYY-MM-DD HH:MM:SS[.ffffff]' and compared by SQLite as text; for      *)
(* timestamps of one format that order is the chronological one, so a      *)
(* stored timestamp is modelled by its instant and compared with <=.       *)
(***************************************************************************)
EXTENDS Integers, Sequences, FiniteSets, TLC

\* ------------------------------------------------------------- bounds
\* the words table holds the ids 1..NumWords (AUTOINCREMENT)
NumWords == 2
\* calls of update_word_progress in one behaviour of Spec
MaxEvents == 5
\* the largest counter of a stored row drawn as the input of one advance
MaxCount == 4

\* the time that may pass between the two clock reads of one update
Drifts == {0, 1}
\* current_user_id when nobody is logged in
None == 0
Modes == {"spelling", "meaning"}
Levels == {"primary", "junior"}
\* the level column of the words table: odd ids are one level, even the other
level_of(w) == IF w % 2 = 1 THEN "primary" ELSE "junior"
\* words.created_at (DEFAULT CURRENT_TIMESTAMP): the default words are
\* inserted in one loop, before any review, within the same instant
created_at(w) == 0
\* the limits get_words_for_review is called with (10 is its default)
Limits == {1, 10}
\* the level argument; "all" stands for level=None (no filter)
LevelArgs == Levels \cup {"all"}

Min(a, b) == IF a <= b THEN a ELSE b
Max(a, b) == IF a >= b THEN a ELSE b

\* timedelta(minutes=), timedelta(hours=), timedelta(days=), in minutes
minutes(n) == n
hours(n) == 60 * n
days(n) == 1440 * n

\* texts are sequences of characters; " " stands for white space and "A" for
\* a letter that has a lower-case form
MaxTextLen == 2
Chars == {" ", "a", "A", "b"}
Texts == UNION {[1..n -> Chars] : n \in 0..MaxTextLen}

\* the word and the meaning columns of the words table
word_of(w) == [i \in 1..w |-> IF i = 1 THEN "A" ELSE "b"]
meaning_of(w) == [i \in 1..(w + 1) |-> IF i = 1 THEN "b" ELSE "A"]

\* str.strip(): leading and trailing white space removed
Strip(t) ==
  LET inked == {i \in 1..Len(t) : t[i] # " "}
  IN IF inked = {}
       THEN <<>>
       ELSE LET first == CHOOSE i \in inked : \A j \in inked : i <= j
                last == CHOOSE i \in inked : \A j \in inked : j <= i
            IN SubSeq(t, first, last)

\* str.lower()
Lower(t) == [i \in 1..Len(t) |-> IF t[i] = "A" THEN "a" ELSE t[i]]

\* the operator in of two strings: part occurs in whole
Contains(whole, part) ==
  \E i \in 0..(Len(whole) - Len(part)) :
    SubSeq(whole, i + 1, i + Len(part)) = part

VARIABLES
  words,             \* the ids of the rows of the words table
  current_user_id,   \* UserDatabase.current_user_id (None when nobody is logged in)
  progress,          \* user_word_progress: <<user_id, word_id>> -> row (UNIQUE key)
  study_records,     \* study_records, in write order
  study_seq,         \* AUTOINCREMENT counter of study_records (ids ever given)
  clock,             \* the instant datetime.now() returns
  last_call,         \* the most recent call: its arguments and what it returned
  current_words,     \* StudyWidget.current_words: the rows fetched by start_study
  current_index,     \* StudyWidget.current_index
  current_word,      \* StudyWidget.current_word (NoWord before the first word)
  start_button,      \* start_button.isEnabled()
  check_button,      \* check_button.isEnabled()
  show_answer_button,\* show_answer_button.isEnabled()
  next_button,       \* next_button.isEnabled()
  timers,            \* pending QTimer.singleShot(1000, self.next_word) calls
  study_mode,        \* StudyWidget.study_mode: "spelling", "meaning" or "mixed"
  word_label,        \* what word_label shows: the start prompt ("start"), the
                     \* meaning or the word of current_word, or the end notice
  result_label,      \* what result_label shows: nothing (""), the verdict of a
                     \* check ("correct", "wrong"), a revealed answer ("answer")
                     \* or the end notice ("finished")
  input_text,        \* input_edit.text(), a sequence of characters
  inflight,          \* update_word_progress calls between their SELECT and their write
  speaking,          \* TTSEngine._speaking
  speak_thread       \* the speak_thread workers started by speak: where each is

\* the state of the StudyWidget
widget_but_input == <<current_words, current_index, current_word, start_button,
                      check_button, show_answer_button, next_button, timers,
                      study_mode, word_label, result_label>>
widget_vars == <<widget_but_input, input_text>>

\* the state of the TTSEngine
tts_vars == <<speaking, speak_thread>>

vars == <<words, current_user_id, progress, study_records, study_seq, clock,
          last_call, widget_vars, inflight, tts_vars>>

\* the speak_thread workers one behaviour may start
MaxThreads == 3
Threads == 1..MaxThreads

\* TTSEngine.__init__: nothing is being spoken, no worker has been started
TtsInit ==
  /\ speaking = FALSE
  /\ speak_thread = [t \in Threads |-> "unborn"]


\* ------------------------------------------------- update_word_progress
\* ReadProgress taking a word without a row for one of difficulty 2
ReadProgressHarder(uid, w) ==
  IF <<uid, w>> \in DOMAIN progress
    THEN LET r == progress[<<uid, w>>]
         IN  [review_count |-> r.review_count, correct_count |-> r.correct_count,
              difficulty |-> r.difficulty, mastery_level |-> r.mastery_level,
              consecutive_correct |-> r.consecutive_correct]
    ELSE [review_count |-> 0, correct_count |-> 0, difficulty |-> 2,
          mastery_level |-> 0, consecutive_correct |-> 0]

\* the row the SELECT of update_word_progress reads, or the defaults 0,0,1,0,0
ReadProgress(uid, w) ==
  IF <<uid, w>> \in DOMAIN progress
    THEN LET r == progress[<<uid, w>>]
         IN  [review_count |-> r.review_count, correct_count |-> r.correct_count,
              difficulty |-> r.difficulty, mastery_level |-> r.mastery_level,
              consecutive_correct |-> r.consecutive_correct]
    ELSE [review_count |-> 0, correct_count |-> 0, difficulty |-> 1,
          mastery_level |-> 0, consecutive_correct |-> 0]

\* Tally without the min/max clamps
TallyUnclamped(r, is_correct) ==
  IF is_correct
    THEN [review_count |-> r.review_count + 1,
          correct_count |-> r.correct_count + 1,
          consecutive_correct |-> r.consecutive_correct + 1,
          mastery_level |-> r.mastery_level + 1,
          difficulty |-> r.difficulty - 1]
    ELSE [review_count |-> r.review_count + 1,
          correct_count |-> r.correct_count,
          consecutive_correct |-> 0,
          mastery_level |-> r.mastery_level - 1,
          difficulty |-> r.difficulty + 1]

\* Tally that leaves difficulty alone after a correct answer
TallyKeepsDifficulty(r, is_correct) ==
  IF is_correct
    THEN [review_count |-> r.review_count + 1,
          correct_count |-> r.correct_count + 1,
          consecutive_correct |-> r.consecutive_correct + 1,
          mastery_level |-> IF r.mastery_level + 1 > 5 THEN 5 ELSE r.mastery_level + 1,
          difficulty |-> r.difficulty]
    ELSE [review_count |-> r.review_count + 1,
          correct_count |-> r.correct_count,
          consecutive_correct |-> 0,
          mastery_level |-> IF r.mastery_level - 1 < 0 THEN 0 ELSE r.mastery_level - 1,
          difficulty |-> IF r.difficulty + 1 > 5 THEN 5 ELSE r.difficulty + 1]

\* Tally that keeps the streak after a wrong answer
TallyKeepsStreak(r, is_correct) ==
  IF is_correct
    THEN [review_count |-> r.review_count + 1,
          correct_count |-> r.correct_count + 1,
          consecutive_correct |-> r.consecutive_correct + 1,
          mastery_level |-> IF r.mastery_level + 1 > 5 THEN 5 ELSE r.mastery_level + 1,
          difficulty |-> IF r.difficulty - 1 < 1 THEN 1 ELSE r.difficulty - 1]
    ELSE [review_count |-> r.review_count + 1,
          correct_count |-> r.correct_count,
          consecutive_correct |-> r.consecutive_correct,
          mastery_level |-> IF r.mastery_level - 1 < 0 THEN 0 ELSE r.mastery_level - 1,
          difficulty |-> IF r.difficulty + 1 > 5 THEN 5 ELSE r.difficulty + 1]

\* Tally whose streak stops counting at three
TallyStreakCapped(r, is_correct) ==
  IF is_correct
    THEN [review_count |-> r.review_count + 1,
          correct_count |-> r.correct_count + 1,
          consecutive_correct |-> IF r.consecutive_correct + 1 > 3 THEN 3
                                  ELSE r.consecutive_correct + 1,
          mastery_level |-> IF r.mastery_level + 1 > 5 THEN 5 ELSE r.mastery_level + 1,
          difficulty |-> IF r.difficulty - 1 < 1 THEN 1 ELSE r.difficulty - 1]
    ELSE [review_count |-> r.review_count + 1,
          correct_count |-> r.correct_count,
          consecutive_correct |-> 0,
          mastery_level |-> IF r.mastery_level - 1 < 0 THEN 0 ELSE r.mastery_level - 1,
          difficulty |-> IF r.difficulty + 1 > 5 THEN 5 ELSE r.difficulty + 1]

\* Tally with a wrong answer taking the mastery back to 0
TallyRelapseToZero(r, is_correct) ==
  IF is_correct
    THEN [review_count |-> r.review_count + 1,
          correct_count |-> r.correct_count + 1,
          consecutive_correct |-> r.consecutive_correct + 1,
          mastery_level |-> Min(5, r.mastery_level + 1),
          difficulty |-> Max(1, r.difficulty - 1)]
    ELSE [review_count |-> r.review_count + 1,
          correct_count |-> r.correct_count,
          consecutive_correct |-> 0,
          mastery_level |-> 0,
          difficulty |-> Min(5, r.difficulty + 1)]

\* Tally that counts a correct answer in the streak only
TallyStreakOnly(r, is_correct) ==
  IF is_correct
    THEN [review_count |-> r.review_count + 1,
          correct_count |-> r.correct_count,
          consecutive_correct |-> r.consecutive_correct + 1,
          mastery_level |-> Min(5, r.mastery_level + 1),
          difficulty |-> Max(1, r.difficulty - 1)]
    ELSE [review_count |-> r.review_count + 1,
          correct_count |-> r.correct_count,
          consecutive_correct |-> 0,
          mastery_level |-> Max(0, r.mastery_level - 1),
          difficulty |-> Min(5, r.difficulty + 1)]

\* "update statistics": the counters after one answer
Tally(r, is_correct) ==
  IF is_correct
    THEN [review_count |-> r.review_count + 1,
          correct_count |-> r.correct_count + 1,
          consecutive_correct |-> r.consecutive_correct + 1,
          mastery_level |-> Min(5, r.mastery_level + 1),
          difficulty |-> Max(1, r.difficulty - 1)]
    ELSE [review_count |-> r.review_count + 1,
          correct_count |-> r.correct_count,
          consecutive_correct |-> 0,
          mastery_level |-> Max(0, r.mastery_level - 1),
          difficulty |-> Min(5, r.difficulty + 1)]

\* ReviewInterval with the relapse thresholds one too high
ReviewIntervalLateRelapse(t, is_correct) ==
  IF t.consecutive_correct >= 3 THEN days(365)
  ELSE IF is_correct
    THEN IF t.mastery_level <= 1 THEN minutes(20)
         ELSE IF t.mastery_level = 2 THEN hours(1)
         ELSE IF t.mastery_level = 3 THEN hours(8)
         ELSE IF t.mastery_level = 4 THEN days(1)
         ELSE days(2)
    ELSE IF t.difficulty > 4 THEN minutes(5)
         ELSE IF t.difficulty > 3 THEN minutes(10)
         ELSE minutes(15)

\* ReviewInterval with a wrong answer repeated at once
ReviewIntervalRepeatNow(t, is_correct) ==
  IF t.consecutive_correct >= 3 THEN days(365)
  ELSE IF is_correct
    THEN IF t.mastery_level <= 1 THEN minutes(20)
         ELSE IF t.mastery_level = 2 THEN hours(1)
         ELSE IF t.mastery_level = 3 THEN hours(8)
         ELSE IF t.mastery_level = 4 THEN days(1)
         ELSE days(2)
    ELSE minutes(0)

\* ReviewInterval that sets the far date one correct answer early
ReviewIntervalEarlyRetire(t, is_correct) ==
  IF t.consecutive_correct >= 2 THEN days(365)
  ELSE IF is_correct
    THEN IF t.mastery_level <= 1 THEN minutes(20)
         ELSE IF t.mastery_level = 2 THEN hours(1)
         ELSE IF t.mastery_level = 3 THEN hours(8)
         ELSE IF t.mastery_level = 4 THEN days(1)
         ELSE days(2)
    ELSE IF t.difficulty >= 4 THEN minutes(5)
         ELSE IF t.difficulty >= 3 THEN minutes(10)
         ELSE minutes(15)

\* the interval added to datetime.now() to give next_review
ReviewInterval(t, is_correct) ==
  IF t.consecutive_correct >= 3 THEN days(365)
  ELSE IF is_correct
    THEN IF t.mastery_level <= 1 THEN minutes(20)
         ELSE IF t.mastery_level = 2 THEN hours(1)
         ELSE IF t.mastery_level = 3 THEN hours(8)
         ELSE IF t.mastery_level = 4 THEN days(1)
         ELSE days(2)
    ELSE IF t.difficulty >= 4 THEN minutes(5)
         ELSE IF t.difficulty >= 3 THEN minutes(10)
         ELSE minutes(15)

\* StoredMastery without the retirement mark
StoredMasteryUnforced(t) == t.mastery_level

\* mastery_level as stored: three correct answers in a row mark the word mastered
StoredMastery(t) ==
  IF t.consecutive_correct >= 3 THEN 5 ELSE t.mastery_level

\* NewRow with the interval looked up from the mastery and difficulty read
\* before the answer was counted
NewRowStaleLevels(r, is_correct, now, later) ==
  LET t == Tally(r, is_correct)
      stale == [t EXCEPT !.mastery_level = r.mastery_level,
                         !.difficulty = r.difficulty]
  IN  [review_count |-> t.review_count,
       correct_count |-> t.correct_count,
       difficulty |-> t.difficulty,
       last_review_date |-> later,
       next_review_date |-> now + ReviewInterval(stale, is_correct),
       mastery_level |-> StoredMastery(t),
       consecutive_correct |-> t.consecutive_correct]

\* the row INSERT OR REPLACE writes: next_review is computed from the clock
\* read `now`, last_review_date from a second read `later` (now <= later)
NewRow(r, is_correct, now, later) ==
  LET t == Tally(r, is_correct)
  IN  [review_count |-> t.review_count,
       correct_count |-> t.correct_count,
       difficulty |-> t.difficulty,
       last_review_date |-> later,
       next_review_date |-> now + ReviewInterval(t, is_correct),
       mastery_level |-> StoredMastery(t),
       consecutive_correct |-> t.consecutive_correct]

\* Upsert writing the row to every pair of the learner
UpsertAllOfUser(table, key, row) ==
  [k \in DOMAIN table \cup {key} |-> IF k[1] = key[1] THEN row ELSE table[k]]

\* INSERT OR REPLACE on the UNIQUE(user_id, word_id) key
Upsert(table, key, row) ==
  [k \in DOMAIN table \cup {key} |-> IF k = key THEN row ELSE table[k]]

\* UpdateWordProgress scheduling an answer in meaning mode as a wrong one
UpdateWordProgressByMode(word_id, is_correct, mode, drift) ==
  IF current_user_id = None
    THEN /\ last_call' = [op |-> "update", user |-> None, word_id |-> word_id,
                          is_correct |-> is_correct, study_mode |-> mode]
         /\ UNCHANGED <<words, current_user_id, progress, study_records, study_seq, clock>>
    ELSE LET old == ReadProgress(current_user_id, word_id)
             row == NewRow(old, is_correct /\ mode = "spelling",
                           clock, clock + drift)
         IN  /\ progress' = Upsert(progress, <<current_user_id, word_id>>, row)
             /\ study_seq' = study_seq + 1
             /\ study_records' = Append(study_records,
                    [id |-> study_seq + 1, user_id |-> current_user_id,
                     word_id |-> word_id, is_correct |-> is_correct,
                     study_mode |-> mode])
             /\ clock' = clock + drift
             /\ last_call' = [op |-> "update", user |-> current_user_id,
                              word_id |-> word_id, is_correct |-> is_correct,
                              study_mode |-> mode,
                              existed |-> <<current_user_id, word_id>> \in DOMAIN progress,
                              old |-> old, now |-> clock]
             /\ UNCHANGED <<words, current_user_id>>

UpdateWordProgress(word_id, is_correct, mode, drift) ==
  IF current_user_id = None
    THEN /\ last_call' = [op |-> "update", user |-> None, word_id |-> word_id,
                          is_correct |-> is_correct, study_mode |-> mode]
         /\ UNCHANGED <<words, current_user_id, progress, study_records, study_seq, clock>>
    ELSE LET old == ReadProgress(current_user_id, word_id)
             row == NewRow(old, is_correct, clock, clock + drift)
         IN  /\ progress' = Upsert(progress, <<current_user_id, word_id>>, row)
             /\ study_seq' = study_seq + 1
             /\ study_records' = Append(study_records,
                    [id |-> study_seq + 1, user_id |-> current_user_id,
                     word_id |-> word_id, is_correct |-> is_correct,
                     study_mode |-> mode])
             /\ clock' = clock + drift
             /\ last_call' = [op |-> "update", user |-> current_user_id,
                              word_id |-> word_id, is_correct |-> is_correct,
                              study_mode |-> mode,
                              existed |-> <<current_user_id, word_id>> \in DOMAIN progress,
                              old |-> old, now |-> clock]
             /\ UNCHANGED <<words, current_user_id>>

\* ------------------------------------------------- get_words_for_review
HasRow(uid, w) == <<uid, w>> \in DOMAIN progress

\* Selectable with a strict bound on the due date
SelectableStrict(uid, w, now) ==
  /\ \/ ~HasRow(uid, w)
     \/ progress[<<uid, w>>].next_review_date < now
  /\ (IF HasRow(uid, w) THEN progress[<<uid, w>>].consecutive_correct ELSE 0) < 3

\* Selectable by the due date alone
SelectableByDate(uid, w, now) ==
  \/ ~HasRow(uid, w)
  \/ progress[<<uid, w>>].next_review_date <= now

\* WHERE (uwp.next_review_date IS NULL OR uwp.next_review_date <= ?)
\*   AND COALESCE(uwp.consecutive_correct, 0) < 3
\* over words LEFT JOIN user_word_progress: a word without a row has NULLs
Selectable(uid, w, now) ==
  /\ \/ ~HasRow(uid, w)
     \/ progress[<<uid, w>>].next_review_date <= now
  /\ (IF HasRow(uid, w) THEN progress[<<uid, w>>].consecutive_correct ELSE 0) < 3

\* AND w.level = ?  (appended only when a level is given)
LevelMatches(w, level) == level = "all" \/ level_of(w) = level

\* ORDER BY COALESCE(uwp.next_review_date, w.created_at)
SortKey(uid, w) ==
  IF HasRow(uid, w) THEN progress[<<uid, w>>].next_review_date ELSE created_at(w)

\* Precedes with equal keys in the reverse of the scan
PrecedesLatestFirst(uid, a, b) ==
  \/ SortKey(uid, a) < SortKey(uid, b)
  \/ SortKey(uid, a) = SortKey(uid, b) /\ a >= b

\* ASC; SQLite answers a sorted LIMIT query from an index on (key, sequence
\* number), the sequence following the scan of words by id
Precedes(uid, a, b) ==
  \/ SortKey(uid, a) < SortKey(uid, b)
  \/ SortKey(uid, a) = SortKey(uid, b) /\ a <= b

RECURSIVE Ordered(_, _)
Ordered(uid, S) ==
  IF S = {} THEN <<>>
  ELSE LET first == CHOOSE a \in S : \A b \in S : Precedes(uid, a, b)
       IN  <<first>> \o Ordered(uid, S \ {first})

\* the columns of one result row
ResultRow(uid, w) ==
  LET r == ReadProgress(uid, w)
  IN  [id |-> w, level |-> level_of(w), review_count |-> r.review_count,
       correct_count |-> r.correct_count, difficulty |-> r.difficulty,
       mastery_level |-> r.mastery_level,
       consecutive_correct |-> r.consecutive_correct]

\* Limited letting one row more through
LimitedOneMore(s, limit) ==
  IF limit < 0 THEN s ELSE SubSeq(s, 1, Min(limit + 1, Len(s)))

\* LIMIT ?  (a negative LIMIT is no limit in SQLite)
Limited(s, limit) == IF limit < 0 THEN s ELSE SubSeq(s, 1, Min(limit, Len(s)))

\* WordsForReview with the limit applied before the level filter
WordsForReviewCapFirst(uid, limit, level, now) ==
  IF uid = None THEN <<>>
  ELSE LET hit == {w \in words : Selectable(uid, w, now)}
           cut == Limited(Ordered(uid, hit), limit)
           ids == SelectSeq(cut, LAMBDA w : LevelMatches(w, level))
       IN  [i \in 1..Len(ids) |-> ResultRow(uid, ids[i])]

\* the rows get_words_for_review returns for user uid at time now
\* WordsForReview without the early return for no user
WordsForReviewUnguarded(uid, limit, level, now) ==
  LET hit == {w \in words : Selectable(uid, w, now) /\ LevelMatches(w, level)}
      ids == Limited(Ordered(uid, hit), limit)
  IN  [i \in 1..Len(ids) |-> ResultRow(uid, ids[i])]

WordsForReview(uid, limit, level, now) ==
  IF uid = None THEN <<>>
  ELSE LET hit == {w \in words : Selectable(uid, w, now) /\ LevelMatches(w, level)}
           ids == Limited(Ordered(uid, hit), limit)
       IN  [i \in 1..Len(ids) |-> ResultRow(uid, ids[i])]

\* GetWordsForReview deleting the rows of the words it does not return
GetWordsForReviewPurging(limit, level) ==
  LET rows == WordsForReview(current_user_id, limit, level, clock)
      ids == {rows[i].id : i \in 1..Len(rows)}
  IN  /\ last_call' = [op |-> "query", user |-> current_user_id,
                       limit |-> limit, level |-> level, now |-> clock,
                       rows |-> rows]
      /\ progress' = [k \in {q \in DOMAIN progress :
                               q[1] # current_user_id \/ q[2] \in ids}
                        |-> progress[k]]
      /\ UNCHANGED <<words, current_user_id, study_records, study_seq, clock>>

GetWordsForReview(limit, level) ==
  /\ last_call' = [op |-> "query", user |-> current_user_id, limit |-> limit,
                   level |-> level, now |-> clock,
                   rows |-> WordsForReview(current_user_id, limit, level, clock)]
  /\ UNCHANGED <<words, current_user_id, progress, study_records, study_seq, clock>>

\* the call reporting a failure of the store as an empty result
GetWordsForReviewSwallows(limit, level) ==
  /\ last_call' = [op |-> "query", user |-> current_user_id, limit |-> limit,
                   level |-> level, now |-> clock, rows |-> <<>>]
  /\ UNCHANGED <<words, current_user_id, progress, study_records, study_seq, clock>>

\* the store fails (the file cannot be opened or read): sqlite3 raises, and
\* get_words_for_review, which catches nothing, passes the exception on
GetWordsForReviewFails(limit, level) ==
  /\ last_call' = [op |-> "query_failed", user |-> current_user_id,
                   limit |-> limit, level |-> level, raised |-> "sqlite3.Error"]
  /\ UNCHANGED <<words, current_user_id, progress, study_records, study_seq, clock>>

\* ------------------------------------------------- the other operations
\* StudyWidget.__init__ and init_ui: no word, no snapshot, only the start
\* button enabled, no timer pending
\* current_word = None, among the rows current_word may hold
NoWord == [id |-> None]

WidgetInit ==
  /\ current_words = <<>>
  /\ current_index = 0
  /\ current_word = NoWord
  /\ start_button = TRUE
  /\ check_button = FALSE
  /\ show_answer_button = FALSE
  /\ next_button = FALSE
  /\ timers = 0
  /\ study_mode = "spelling"
  /\ word_label = "start"
  /\ result_label = ""
  /\ input_text = <<>>

\* no update_word_progress call is under way
NoCalls == <<>>

\* login_user with a matching password: the user becomes the current one
LoginUser(uid) ==
  /\ current_user_id' = uid
  /\ last_call' = [op |-> "login", user |-> uid]
  /\ UNCHANGED <<words, progress, study_records, study_seq, clock>>

\* get_user_statistics: counts read from the tables (the accuracy is given
\* by its two counts, the distributions by the rows themselves)
GetUserStatistics ==
  /\ last_call' =
       IF current_user_id = None THEN [op |-> "stats", user |-> None]
       ELSE [op |-> "stats", user |-> current_user_id,
             total_words |-> Cardinality(words),
             studied_words |->
               Cardinality({k \in DOMAIN progress :
                  k[1] = current_user_id /\ progress[k].review_count > 0}),
             mastered_words |->
               Cardinality({k \in DOMAIN progress :
                  k[1] = current_user_id /\ progress[k].consecutive_correct >= 3}),
             answers |->
               Cardinality({i \in 1..Len(study_records) :
                  study_records[i].user_id = current_user_id}),
             correct_answers |->
               Cardinality({i \in 1..Len(study_records) :
                  /\ study_records[i].user_id = current_user_id
                  /\ study_records[i].is_correct})]
  /\ UNCHANGED <<words, current_user_id, progress, study_records, study_seq, clock>>

\* time passes: the clock reaches t
AdvanceClock(t) ==
  /\ t > clock
  /\ clock' = t
  /\ last_call' = [op |-> "wait"]
  /\ UNCHANGED <<words, current_user_id, progress, study_records, study_seq>>

\* the instants worth waiting for: a stored next_review_date, or just after it
DueInstants ==
  UNION {{progress[k].next_review_date, progress[k].next_review_date + 1} :
         k \in DOMAIN progress}

\* ------------------------------------------------- the store, from empty
\* A fresh database after the first login: the learner studies word 1, with
\* any outcomes, at any of the instants a review falls due; the other words of
\* the table stay unreviewed.  Answers are given in spelling mode.
Init ==
  /\ words = 1..NumWords
  /\ current_user_id = None
  /\ progress = <<>>
  /\ study_records = <<>>
  /\ study_seq = 0
  /\ clock = 1
  /\ last_call = [op |-> "init"]
  /\ WidgetInit
  /\ inflight = NoCalls
  /\ TtsInit

Login ==
  current_user_id = None /\ LoginUser(1) /\ UNCHANGED <<widget_vars, inflight, tts_vars>>

Answer ==
  \E c \in BOOLEAN, d \in Drifts :
    /\ study_seq < MaxEvents /\ UpdateWordProgress(1, c, "spelling", d)
    /\ UNCHANGED <<widget_vars, inflight, tts_vars>>

Query ==
  \E n \in Limits, l \in LevelArgs :
    GetWordsForReview(n, l) /\ UNCHANGED <<widget_vars, inflight, tts_vars>>

Wait ==
  \E t \in DueInstants : AdvanceClock(t) /\ UNCHANGED <<widget_vars, inflight, tts_vars>>

Next == Login \/ Answer \/ Query \/ Wait

Spec == Init /\ [][Next]_vars

\* ------------------------------------------------- one advance of any row
\* in-range rows of user_word_progress, as the schema and its writer bound them
InRangeRows ==
  {r \in [review_count : 0..MaxCount, correct_count : 0..MaxCount,
          difficulty : 1..5, last_review_date : {0}, next_review_date : {1},
          mastery_level : 0..5, consecutive_correct : 0..MaxCount] :
     r.correct_count <= r.review_count}

\* user 1 is logged in and holds either no row for word 1 or any in-range row
InitAdvance ==
  /\ words = {1}
  /\ current_user_id = 1
  /\ \/ progress = <<>>
     \/ \E r \in InRangeRows : progress = [k \in {<<1, 1>>} |-> r]
  /\ study_records = <<>>
  /\ study_seq = 0
  /\ clock = 1
  /\ last_call = [op |-> "init"]
  /\ WidgetInit
  /\ inflight = NoCalls
  /\ TtsInit

\* one answer, correct or not, in either mode
NextAdvance ==
  \E c \in BOOLEAN, m \in Modes, d \in Drifts :
    /\ study_seq = 0 /\ UpdateWordProgress(1, c, m, d)
    /\ UNCHANGED <<widget_vars, inflight, tts_vars>>

SpecAdvance == InitAdvance /\ [][NextAdvance]_vars

\* ------------------------------------------------- the due query, in breadth
\* the words of the table in SpecQuery, and the answers of one behaviour
NumQueryWords == 3
MaxQueryEvents == 2
\* local time minus UTC, in minutes, of the machine the program runs on:
\* created_at is written by SQLite's CURRENT_TIMESTAMP, which is UTC, the
\* review dates by Python's datetime.now(), which is local time
UtcOffsets == {-300, 480}
\* limits below, at and above the number of words
QueryLimits == {1, 2, 10}

\* A fresh database whose user has just logged in: the words were created at
\* created_at (UTC), the wall clock shows the local time of an instant later.
InitQuery ==
  /\ words = 1..NumQueryWords
  /\ current_user_id = 1
  /\ progress = <<>>
  /\ study_records = <<>>
  /\ study_seq = 0
  /\ \E o \in UtcOffsets : clock = created_at(1) + o + 1
  /\ last_call = [op |-> "init"]
  /\ WidgetInit
  /\ inflight = NoCalls
  /\ TtsInit

\* any word is answered, correctly or not (the two clock reads of the update
\* falling in the same instant)
AnswerAny ==
  \E w \in words, c \in BOOLEAN :
    /\ study_seq < MaxQueryEvents /\ UpdateWordProgress(w, c, "spelling", 0)
    /\ UNCHANGED <<widget_vars, inflight, tts_vars>>

QueryAny ==
  \E n \in QueryLimits, l \in LevelArgs :
    GetWordsForReview(n, l) /\ UNCHANGED <<widget_vars, inflight, tts_vars>>

NextQuery == AnswerAny \/ QueryAny \/ Wait

SpecQuery == InitQuery /\ [][NextQuery]_vars

\* ------------------------------------------------- the study session
\* StudyWidget: its handlers run one at a time on the Qt event loop.  The
\* words are answered in spelling mode (the widget's initial study_mode); the
\* speech output the handlers start is left out.  A session lasts minutes at
\* most: the clock stands still, the due status of a word changes by its
\* being answered and by a reset.
\* the words of the table in SpecSession
NumSessionWords == 2
\* updates after which no further session is started and Enter is no longer
\* pressed on a word already checked
MaxSessionEvents == 4

\* the state of the database, which the handlers without a database call leave
db_vars == <<words, current_user_id, progress, study_records, study_seq, clock,
             last_call>>

set_word(word_data) ==
  /\ current_word' = word_data
  /\ \E current_mode \in (IF study_mode = "mixed" THEN Modes ELSE {study_mode}) :
       word_label' = IF current_mode = "spelling" THEN "meaning" ELSE "word"
  /\ input_text' = <<>>
  /\ result_label' = ""
  /\ check_button' = TRUE
  /\ show_answer_button' = TRUE
  /\ next_button' = FALSE

finish_study ==
  /\ word_label' = "finished"
  /\ input_text' = <<>>
  /\ result_label' = "finished"
  /\ start_button' = TRUE
  /\ check_button' = FALSE
  /\ show_answer_button' = FALSE
  /\ next_button' = FALSE
  /\ UNCHANGED current_word

\* next_word fetching the words again before it moves on
next_word_requery ==
  /\ current_index' = current_index + 1
  /\ current_words' = WordsForReview(current_user_id, 10, "all", clock)
  /\ IF current_index + 1 < Len(current_words')
       THEN set_word(current_words'[current_index + 2]) /\ UNCHANGED start_button
       ELSE finish_study

\* current_index is 0-based, the sequence current_words 1-based
next_word ==
  /\ current_index' = current_index + 1
  /\ IF current_index + 1 < Len(current_words)
       THEN set_word(current_words[current_index + 2]) /\ UNCHANGED start_button
       ELSE finish_study
  /\ UNCHANGED current_words

\* start_study leaving the start button enabled
start_study_reentrant(level) ==
  /\ GetWordsForReview(10, level)
  /\ current_words' = WordsForReview(current_user_id, 10, level, clock)
  /\ IF current_words' = <<>>
       THEN UNCHANGED <<current_index, current_word, start_button, check_button,
                        show_answer_button, next_button, word_label, input_text,
                        result_label>>
       ELSE /\ current_index' = 0
            /\ UNCHANGED start_button
            /\ set_word(current_words'[1])

\* level is the choice of level_combo, "all" for the entry of all levels
start_study(level) ==
  /\ GetWordsForReview(10, level)
  /\ current_words' = WordsForReview(current_user_id, 10, level, clock)
  /\ IF current_words' = <<>>
       THEN UNCHANGED <<current_index, current_word, start_button, check_button,
                        show_answer_button, next_button, word_label, input_text,
                        result_label>>
       ELSE /\ current_index' = 0
            /\ start_button' = FALSE
            /\ set_word(current_words'[1])

\* start_study when the due query raises: the handler ends at line 1264,
\* before current_words is assigned
start_study_raises(level) ==
  /\ GetWordsForReviewFails(10, level)
  /\ UNCHANGED <<current_words, current_index, current_word, start_button,
                 check_button, show_answer_button, next_button, word_label,
                 input_text, result_label>>

\* the mode a handler works in: in mixed mode read back from the label
current_mode_of(mode, label) ==
  IF mode = "mixed"
    THEN (IF label = "meaning" THEN "spelling" ELSE "meaning")
    ELSE mode

\* the comparison of check_answer: equality with the word in spelling mode,
\* containment in the meaning otherwise
Judge(text, word_id, current_mode) ==
  LET user_input == Lower(Strip(text))
  IN IF current_mode = "spelling"
       THEN user_input = Lower(word_of(word_id))
       ELSE Contains(Lower(meaning_of(word_id)), user_input)

\* text is what input_edit holds when the handler runs
check_answer(text) ==
  IF current_word = NoWord
    THEN input_text' = text /\ UNCHANGED <<db_vars, widget_but_input>>
    ELSE LET current_mode == current_mode_of(study_mode, word_label)
             is_correct == Judge(text, current_word.id, current_mode)
         IN /\ input_text' = text
            /\ UpdateWordProgress(current_word.id, is_correct, current_mode, 0)
            /\ IF is_correct
                 THEN /\ result_label' = "correct"
                      /\ timers' = timers + 1
                      /\ UNCHANGED <<next_button, word_label>>
                 ELSE /\ result_label' = "wrong"
                      /\ next_button' = TRUE
                      /\ word_label' = IF current_mode = "spelling"
                                         THEN "word" ELSE "meaning"
                      /\ UNCHANGED timers
            /\ check_button' = FALSE
            /\ show_answer_button' = FALSE
            /\ UNCHANGED <<current_words, current_index, current_word,
                           start_button, study_mode>>

show_answer ==
  IF current_word = NoWord
    THEN UNCHANGED <<db_vars, widget_vars>>
    ELSE LET current_mode == current_mode_of(study_mode, word_label)
         IN /\ result_label' = "answer"
            /\ word_label' = IF current_mode = "spelling"
                                THEN "word" ELSE "meaning"
            /\ UpdateWordProgress(current_word.id, FALSE, current_mode, 0)
            /\ check_button' = FALSE
            /\ show_answer_button' = FALSE
            /\ next_button' = TRUE
            /\ UNCHANGED <<current_words, current_index, current_word,
                           start_button, timers, study_mode, input_text>>

\* on_mode_changed after one of the two check boxes was toggled; with both
\* boxes clear the spelling box is set again
on_mode_changed(spelling_checked, meaning_checked) ==
  study_mode' = IF spelling_checked /\ meaning_checked THEN "mixed"
                ELSE IF spelling_checked THEN "spelling"
                ELSE IF meaning_checked THEN "meaning"
                ELSE "spelling"

\* reset_progress with the WHERE clauses left out
reset_progress_everyone ==
  /\ progress' = <<>>
  /\ study_records' = <<>>
  /\ last_call' = [op |-> "reset", user |-> current_user_id]
  /\ UNCHANGED <<words, current_user_id, study_seq, clock>>

\* SettingsWidget.reset_progress, confirmed: the rows of the current user go
reset_progress ==
  /\ progress' = [k \in {q \in DOMAIN progress : q[1] # current_user_id}
                    |-> progress[k]]
  /\ study_records' = SelectSeq(study_records,
                                LAMBDA r : r.user_id # current_user_id)
  /\ last_call' = [op |-> "reset", user |-> current_user_id]
  /\ UNCHANGED <<words, current_user_id, study_seq, clock>>

\* the main window of a logged-in user over a fresh database
InitSession ==
  /\ words = 1..NumSessionWords
  /\ current_user_id = 1
  /\ progress = <<>>
  /\ study_records = <<>>
  /\ study_seq = 0
  /\ clock = 1
  /\ last_call = [op |-> "init"]
  /\ WidgetInit
  /\ inflight = NoCalls
  /\ TtsInit

\* what the learner types in the session: nothing, or the word on show
TypedTexts == {<<>>} \cup {word_of(w) : w \in {current_word.id} \ {None}}

\* the events of the event loop: a click reaches its handler only while the
\* button is enabled, Enter (returnPressed of input_edit) at any time
\* ClickCheck: the check button, or Enter, on a word not checked yet
\* PressEnter: Enter once more after the word was checked or revealed
ClickStart ==
  \E l \in LevelArgs :
    /\ start_button /\ study_seq < MaxSessionEvents
    /\ start_study(l)
    /\ UNCHANGED <<timers, study_mode, inflight, tts_vars>>

\* the start button while the store fails
ClickStartFails ==
  \E l \in LevelArgs :
    /\ start_button
    /\ start_study_raises(l)
    /\ UNCHANGED <<timers, study_mode, inflight, tts_vars>>

\* the statistics tab is opened (on_tab_changed, update_statistics)
ViewStatistics == GetUserStatistics /\ UNCHANGED <<widget_vars, inflight, tts_vars>>

ClickCheck ==
  \E t \in TypedTexts :
    check_button /\ check_answer(t) /\ UNCHANGED <<inflight, tts_vars>>

PressEnter ==
  \E t \in TypedTexts :
    /\ ~check_button /\ study_seq < MaxSessionEvents
    /\ check_answer(t)
    /\ UNCHANGED <<inflight, tts_vars>>

ClickShowAnswer == show_answer_button /\ show_answer /\ UNCHANGED <<inflight, tts_vars>>

ClickNext ==
  next_button /\ next_word /\ UNCHANGED <<db_vars, timers, study_mode, inflight, tts_vars>>

TimerFires ==
  /\ timers > 0
  /\ timers' = timers - 1
  /\ next_word
  /\ UNCHANGED <<db_vars, study_mode, inflight, tts_vars>>

ClickReset ==
  /\ DOMAIN progress # {}
  /\ reset_progress
  /\ UNCHANGED <<widget_vars, inflight, tts_vars>>

NextSession ==
  \/ ClickStart \/ ClickCheck \/ PressEnter \/ ClickShowAnswer
  \/ ClickNext \/ TimerFires \/ ClickReset
  \/ ClickStartFails \/ ViewStatistics

SpecSession == InitSession /\ [][NextSession]_vars

\* the learner answers or reveals the word shown and presses next when asked
\* to; a pending timer fires
SpecSessionFair ==
  /\ SpecSession
  /\ WF_vars(ClickCheck \/ ClickShowAnswer)
  /\ WF_vars(ClickNext)
  /\ WF_vars(TimerFires)

\* ------------------------------------------------- what the learner types
\* The session again, with the learner typing any text and choosing the study
\* mode with the two check boxes.
NumJudgeWords == 1
MaxJudgeEvents == 3

InitJudge ==
  /\ words = 1..NumJudgeWords
  /\ current_user_id = 1
  /\ progress = <<>>
  /\ study_records = <<>>
  /\ study_seq = 0
  /\ clock = 1
  /\ last_call = [op |-> "init"]
  /\ WidgetInit
  /\ inflight = NoCalls
  /\ TtsInit

\* one of the two mode check boxes is toggled
ToggleMode ==
  \E box \in Modes :
    LET spelling_checked == (study_mode \in {"spelling", "mixed"})
                              # (box = "spelling")
        meaning_checked == (study_mode \in {"meaning", "mixed"})
                             # (box = "meaning")
    IN /\ on_mode_changed(spelling_checked, meaning_checked)
       /\ UNCHANGED <<db_vars, current_words, current_index, current_word,
                      start_button, check_button, show_answer_button,
                      next_button, timers, word_label, input_text,
                      result_label, inflight, tts_vars>>

StartJudged ==
  \E l \in LevelArgs :
    /\ start_button /\ study_seq < MaxJudgeEvents
    /\ start_study(l)
    /\ UNCHANGED <<timers, study_mode, inflight, tts_vars>>

\* a text is typed and submitted, with the check button or with Enter
SubmitText ==
  \E t \in Texts :
    /\ study_seq < MaxJudgeEvents
    /\ check_answer(t)
    /\ UNCHANGED <<inflight, tts_vars>>

NextJudge ==
  \/ ToggleMode \/ StartJudged \/ SubmitText
  \/ ClickShowAnswer \/ ClickNext \/ TimerFires

SpecJudge == InitJudge /\ [][NextJudge]_vars

\* ------------------------------------------------- time passes
\* The learner of word 1 again, logged in from the start, with the wall clock
\* certain to move on: whatever is stored, the instant of each stored
\* next_review_date comes.
MaxReturnEvents == 5

InitReturn ==
  /\ words = 1..NumWords
  /\ current_user_id = 1
  /\ progress = <<>>
  /\ study_records = <<>>
  /\ study_seq = 0
  /\ clock = 1
  /\ last_call = [op |-> "init"]
  /\ WidgetInit
  /\ inflight = NoCalls
  /\ TtsInit

AnswerReturn ==
  \E c \in BOOLEAN, d \in Drifts :
    /\ study_seq < MaxReturnEvents /\ UpdateWordProgress(1, c, "spelling", d)
    /\ UNCHANGED <<widget_vars, inflight, tts_vars>>

QueryReturn == GetWordsForReview(10, "all") /\ UNCHANGED <<widget_vars, inflight, tts_vars>>

NextReturn == AnswerReturn \/ QueryReturn \/ Wait

SpecReturn == InitReturn /\ [][NextReturn]_vars

SpecReturnFair == SpecReturn /\ WF_vars(Wait)

\* ------------------------------------------------- the speech output
\* TTSEngine.speak runs on the Qt thread and starts one speak_thread worker
\* per call; the workers run beside each other.  A worker is "unborn" before
\* its start, "started" before its first `with self._lock`, then at
\* "create" (create_engine), "play" (say, runAndWait), "finally" (the finally
\* clause) and "done".  A block under the lock is one step.  Thread.start()
\* is taken to succeed.

\* speak with the engine enabled and a text to say; with _speaking set the
\* call returns at line 68 and nothing changes
speak ==
  /\ ~speaking
  /\ \E t \in Threads :
       /\ speak_thread[t] = "unborn"
       /\ \A u \in 1..(t - 1) : speak_thread[u] # "unborn"
       /\ speak_thread' = [speak_thread EXCEPT ![t] = "started"]
  /\ UNCHANGED speaking

\* lines 76-79: under the lock, return if _speaking is set, else set it; the
\* return leaves the try statement through its finally clause
double_check(t) ==
  /\ speak_thread[t] = "started"
  /\ IF speaking
       THEN speak_thread' = [speak_thread EXCEPT ![t] = "finally"]
            /\ UNCHANGED speaking
       ELSE speaking' = TRUE
            /\ speak_thread' = [speak_thread EXCEPT ![t] = "create"]

\* lines 82-84: create_engine gives an engine, or None and the worker returns
create_engine(t) ==
  /\ speak_thread[t] = "create"
  /\ \E made \in BOOLEAN :
       speak_thread' = [speak_thread EXCEPT
                          ![t] = IF made THEN "play" ELSE "finally"]
  /\ UNCHANGED speaking

\* lines 87-92: say and runAndWait end, or raise and are caught
run_and_wait(t) ==
  /\ speak_thread[t] = "play"
  /\ speak_thread' = [speak_thread EXCEPT ![t] = "finally"]
  /\ UNCHANGED speaking

\* lines 93-98: cleanup_engine, then _speaking cleared under the lock
finally_clause(t) ==
  /\ speak_thread[t] = "finally"
  /\ speaking' = FALSE
  /\ speak_thread' = [speak_thread EXCEPT ![t] = "done"]

InitSpeak ==
  /\ words = 1..NumSessionWords
  /\ current_user_id = 1
  /\ progress = <<>>
  /\ study_records = <<>>
  /\ study_seq = 0
  /\ clock = 1
  /\ last_call = [op |-> "init"]
  /\ WidgetInit
  /\ inflight = NoCalls
  /\ TtsInit

CallSpeak == speak /\ UNCHANGED <<db_vars, widget_vars, inflight>>

WorkerStep ==
  \E t \in Threads :
    /\ \/ double_check(t) \/ create_engine(t)
       \/ run_and_wait(t) \/ finally_clause(t)
    /\ UNCHANGED <<db_vars, widget_vars, inflight>>

NextSpeak == CallSpeak \/ WorkerStep

SpecSpeak == InitSpeak /\ [][NextSpeak]_vars

\* ------------------------------------------------- two processes, one file
\* Two instances of the program, the same learner logged in in both, on the
\* same database file.  Each update_word_progress opens its own connection;
\* its SELECT runs outside any transaction (sqlite3 begins one only before
\* the INSERT), its two INSERTs and the commit run under SQLite's write lock.
Procs == {1, 2}
\* the updates written in one behaviour of SpecConcurrent
MaxConcurrentEvents == 3

\* lines 584-611 of process p: the SELECT and the decision on the answer
SelectPhase(p, word_id, is_correct) ==
  /\ current_user_id # None
  /\ p \notin DOMAIN inflight
  /\ inflight' = [q \in DOMAIN inflight \cup {p} |->
                    IF q = p
                      THEN [user |-> current_user_id, word_id |-> word_id,
                            is_correct |-> is_correct,
                            old |-> ReadProgress(current_user_id, word_id)]
                      ELSE inflight[q]]
  /\ UNCHANGED <<db_vars, widget_vars, tts_vars>>

\* lines 613-656 of process p: the row computed from what was read is written
WritePhase(p) ==
  /\ p \in DOMAIN inflight
  /\ LET call == inflight[p]
         row == NewRow(call.old, call.is_correct, clock, clock)
     IN  /\ progress' = Upsert(progress, <<call.user, call.word_id>>, row)
         /\ study_seq' = study_seq + 1
         /\ study_records' = Append(study_records,
                [id |-> study_seq + 1, user_id |-> call.user,
                 word_id |-> call.word_id, is_correct |-> call.is_correct,
                 study_mode |-> "spelling"])
         /\ last_call' = [op |-> "update", user |-> call.user,
                          word_id |-> call.word_id,
                          is_correct |-> call.is_correct,
                          study_mode |-> "spelling",
                          existed |-> <<call.user, call.word_id>> \in DOMAIN progress,
                          old |-> call.old, now |-> clock]
  /\ inflight' = [q \in DOMAIN inflight \ {p} |-> inflight[q]]
  /\ UNCHANGED <<words, current_user_id, clock, widget_vars, tts_vars>>

InitConcurrent ==
  /\ words = 1..NumWords
  /\ current_user_id = 1
  /\ progress = <<>>
  /\ study_records = <<>>
  /\ study_seq = 0
  /\ clock = 1
  /\ last_call = [op |-> "init"]
  /\ WidgetInit
  /\ inflight = NoCalls
  /\ TtsInit

BeginUpdate ==
  \E p \in Procs, w \in words, c \in BOOLEAN :
    /\ study_seq + Cardinality(DOMAIN inflight) < MaxConcurrentEvents
    /\ SelectPhase(p, w, c)

EndUpdate == \E p \in Procs : WritePhase(p)

NextConcurrent == BeginUpdate \/ EndUpdate

SpecConcurrent == InitConcurrent /\ [][NextConcurrent]_vars

\* ------------------------------------------------- several learners
Users == {1, 2}
\* the updates of one behaviour of SpecPairs
MaxPairEvents == 3

\* the program is started and a registered learner logs in
LoginAny ==
  \E u \in Users : LoginUser(u) /\ UNCHANGED <<widget_vars, inflight, tts_vars>>

AnswerPair ==
  \E w \in words, c \in BOOLEAN :
    /\ current_user_id # None /\ study_seq < MaxPairEvents
    /\ UpdateWordProgress(w, c, "spelling", 0)
    /\ UNCHANGED <<widget_vars, inflight, tts_vars>>

NextPairs == LoginAny \/ AnswerPair

SpecPairs == Init /\ [][NextPairs]_vars

\* ------------------------------------------------- reset among learners
\* Two learners take turns at the program on one database file: each logs
\* in, answers words, may reset the own progress in the settings tab, and
\* asks for the due words.
MaxResetEvents == 4

AnswerBeforeReset ==
  \E w \in words, c \in BOOLEAN :
    /\ current_user_id # None /\ study_seq < MaxResetEvents
    /\ UpdateWordProgress(w, c, "spelling", 0)
    /\ UNCHANGED <<widget_vars, inflight, tts_vars>>

ResetOwn ==
  /\ current_user_id # None
  /\ reset_progress
  /\ UNCHANGED <<widget_vars, inflight, tts_vars>>

QueryAfterReset ==
  /\ current_user_id # None
  /\ GetWordsForReview(10, "all")
  /\ UNCHANGED <<widget_vars, inflight, tts_vars>>

NextReset == LoginAny \/ AnswerBeforeReset \/ ResetOwn \/ QueryAfterReset

SpecReset == Init /\ [][NextReset]_vars

\* ------------------------------------------------- nobody logged in
\* The program is started on a database that may hold rows: current_user_id
\* is None until a learner logs in, and None again after logout.  The
\* methods of UserDatabase are called whether or not a learner is logged in.
MaxGuestEvents == 2

\* UserDatabase.__init__ of a new run of the program, or logout
StartProgram ==
  /\ current_user_id # None
  /\ current_user_id' = None
  /\ last_call' = [op |-> "start"]
  /\ UNCHANGED <<words, progress, study_records, study_seq, clock,
                 widget_vars, inflight, tts_vars>>

AnswerGuest ==
  \E w \in words, c \in BOOLEAN :
    /\ study_seq < MaxGuestEvents
    /\ UpdateWordProgress(w, c, "spelling", 0)
    /\ UNCHANGED <<widget_vars, inflight, tts_vars>>

QueryGuest ==
  \E l \in LevelArgs :
    GetWordsForReview(10, l) /\ UNCHANGED <<widget_vars, inflight, tts_vars>>

NextGuest == LoginAny \/ StartProgram \/ AnswerGuest \/ QueryGuest

SpecGuest == Init /\ [][NextGuest]_vars

\* ------------------------------------------------- rows from elsewhere
\* The schema puts no CHECK on the columns of user_word_progress: a row
\* written to the file by anything other than update_word_progress may hold
\* any integers.  Values below, at and beyond each range.
AnyRows ==
  [review_count : {-1, 0, 2}, correct_count : {-1, 0, 3},
   difficulty : {0, 1, 5, 6}, last_review_date : {0}, next_review_date : {1},
   mastery_level : {-1, 0, 5, 6}, consecutive_correct : {-1, 0, 2}]

\* the field invariants of a progress row
ValidRow(r) ==
  /\ r.mastery_level >= 0 /\ r.mastery_level <= 5
  /\ r.difficulty >= 1 /\ r.difficulty <= 5
  /\ r.review_count >= 0 /\ r.correct_count >= 0
  /\ r.consecutive_correct >= 0
  /\ r.correct_count <= r.review_count

InitAnyRow ==
  /\ words = {1}
  /\ current_user_id = 1
  /\ \E r \in AnyRows : progress = [k \in {<<1, 1>>} |-> r]
  /\ study_records = <<>>
  /\ study_seq = 0
  /\ clock = 1
  /\ last_call = [op |-> "init"]
  /\ WidgetInit
  /\ inflight = NoCalls
  /\ TtsInit

SpecAnyRow == InitAnyRow /\ [][NextAdvance]_vars

\* ------------------------------------------------- properties
\* the most recent call was an update_word_progress that wrote a row
Updated == last_call.op = "update" /\ last_call.user # None
\* the row that call wrote, the counters it had read, and the interval it set
\* (from the clock read the next review was computed from)
WrittenRow == progress[<<last_call.user, last_call.word_id>>]
ReadRow == last_call.old
WrittenInterval == WrittenRow.next_review_date - last_call.now
\* the most recent call was a get_words_for_review of a logged-in user
Queried == last_call.op = "query" /\ last_call.user # None
ReturnedIds == {last_call.rows[i].id : i \in 1..Len(last_call.rows)}

\* C1: every stored row has mastery_level in 0..5, difficulty in 1..5,
\* consecutive_correct >= 0 and correct_count <= review_count, after any
\* sequence of correct and incorrect answers from an empty table.
C1_FieldsInRange ==
  \A k \in DOMAIN progress :
    /\ progress[k].mastery_level >= 0 /\ progress[k].mastery_level <= 5
    /\ progress[k].difficulty >= 1 /\ progress[k].difficulty <= 5
    /\ progress[k].consecutive_correct >= 0
    /\ progress[k].correct_count <= progress[k].review_count

\* a fifth wrong answer in a row has just met the difficulty clamp at 5
C1_Witness ==
  /\ Updated /\ ~last_call.is_correct
  /\ ReadRow.difficulty = 5 /\ ReadRow.mastery_level = 0
  /\ WrittenRow.difficulty = 5 /\ WrittenRow.mastery_level = 0

\* C2: a correct answer adds one to review_count, correct_count and
\* consecutive_correct, lowers difficulty by one but not below 1, and raises
\* mastery_level by one but not above 5 when the new streak is below three.
C2_CorrectAnswer ==
  (Updated /\ last_call.is_correct) =>
    /\ WrittenRow.review_count = ReadRow.review_count + 1
    /\ WrittenRow.correct_count = ReadRow.correct_count + 1
    /\ WrittenRow.consecutive_correct = ReadRow.consecutive_correct + 1
    /\ WrittenRow.difficulty =
         (IF ReadRow.difficulty = 1 THEN 1 ELSE ReadRow.difficulty - 1)
    /\ WrittenRow.consecutive_correct < 3 =>
         WrittenRow.mastery_level =
           (IF ReadRow.mastery_level = 5 THEN 5 ELSE ReadRow.mastery_level + 1)

\* a correct answer on a stored row of difficulty 3 and mastery 5, streak 1
C2_Witness ==
  /\ Updated /\ last_call.is_correct /\ last_call.existed
  /\ ReadRow.difficulty = 3 /\ ReadRow.mastery_level = 5
  /\ ReadRow.consecutive_correct = 1
  /\ WrittenRow.difficulty = 2 /\ WrittenRow.mastery_level = 5

\* C3: an incorrect answer sets consecutive_correct to 0 whatever the streak
\* was, lowers mastery_level by one but not below 0, raises difficulty by one
\* but not above 5, keeps correct_count and adds one to review_count.
C3_IncorrectAnswer ==
  (Updated /\ ~last_call.is_correct) =>
    /\ WrittenRow.consecutive_correct = 0
    /\ WrittenRow.mastery_level =
         (IF ReadRow.mastery_level = 0 THEN 0 ELSE ReadRow.mastery_level - 1)
    /\ WrittenRow.difficulty =
         (IF ReadRow.difficulty = 5 THEN 5 ELSE ReadRow.difficulty + 1)
    /\ WrittenRow.correct_count = ReadRow.correct_count
    /\ WrittenRow.review_count = ReadRow.review_count + 1

\* an incorrect answer on a row with a streak of four
C3_Witness ==
  /\ Updated /\ ~last_call.is_correct
  /\ ReadRow.consecutive_correct = 4 /\ ReadRow.mastery_level = 5
  /\ WrittenRow.consecutive_correct = 0 /\ WrittenRow.mastery_level = 4

\* C4: whenever the streak after the update is three or more, the row is
\* written with mastery_level 5 and a next review 365 days after the clock
\* read, whatever the mastery ladder would give.
C4_Retirement ==
  (Updated /\ WrittenRow.consecutive_correct >= 3) =>
    /\ WrittenRow.mastery_level = 5
    /\ WrittenInterval = 365 * 24 * 60

\* streak 2 and mastery 3, one correct answer: the ladder would give mastery 4
C4_Witness ==
  /\ Updated /\ last_call.is_correct
  /\ ReadRow.consecutive_correct = 2 /\ ReadRow.mastery_level = 3
  /\ WrittenRow.consecutive_correct = 3 /\ WrittenRow.mastery_level = 5

\* C5: after a correct answer that leaves the streak below three, the next
\* review is 20 minutes after the clock read when the new mastery_level is at
\* most 1, 1 hour when it is 2, 8 hours when it is 3, 1 day when it is 4 and
\* 2 days when it is 5 or more.
C5_MasteryLadder ==
  (Updated /\ last_call.is_correct /\ WrittenRow.consecutive_correct < 3) =>
    WrittenInterval =
      CASE WrittenRow.mastery_level <= 1 -> 20
        [] WrittenRow.mastery_level = 2 -> 60
        [] WrittenRow.mastery_level = 3 -> 8 * 60
        [] WrittenRow.mastery_level = 4 -> 24 * 60
        [] WrittenRow.mastery_level >= 5 -> 2 * 24 * 60

\* mastery 2 read, mastery 3 written: 8 hours, not the 1 hour of the level read
C5_Witness ==
  /\ Updated /\ last_call.is_correct
  /\ ReadRow.mastery_level = 2 /\ WrittenRow.mastery_level = 3
  /\ WrittenRow.consecutive_correct < 3
  /\ WrittenInterval = 480

\* C6: after an incorrect answer the next review is 5 minutes after the clock
\* read when the new difficulty is 4 or more, 10 minutes when it is 3 and
\* 15 minutes otherwise; difficulty 4 answered incorrectly becomes 5, due in
\* 5 minutes.
C6_RelapseInterval ==
  (Updated /\ ~last_call.is_correct) =>
    /\ WrittenInterval =
         CASE WrittenRow.difficulty >= 4 -> 5
           [] WrittenRow.difficulty = 3 -> 10
           [] WrittenRow.difficulty <= 2 -> 15
    /\ ReadRow.difficulty = 4 =>
         WrittenRow.difficulty = 5 /\ WrittenInterval = 5

\* difficulty 4 answered incorrectly
C6_Witness ==
  /\ Updated /\ ~last_call.is_correct
  /\ ReadRow.difficulty = 4 /\ WrittenRow.difficulty = 5
  /\ WrittenInterval = 5

\* C7: the due query returns a word only if its next_review_date is absent
\* or <= now (inclusive) and its streak is below three; it returns every such
\* word of the asked level when they fit the limit; a word whose
\* next_review_date is after now is never returned.
C7_Eligibility ==
  Queried =>
    LET uid == last_call.user
        now == last_call.now
        due(w) == \/ <<uid, w>> \notin DOMAIN progress
                  \/ progress[<<uid, w>>].next_review_date <= now
        streak(w) == IF <<uid, w>> \in DOMAIN progress
                       THEN progress[<<uid, w>>].consecutive_correct ELSE 0
        eligible == {w \in words : due(w) /\ streak(w) < 3}
        asked == {w \in eligible :
                    last_call.level = "all" \/ level_of(w) = last_call.level}
    IN  /\ ReturnedIds \subseteq asked
        /\ Cardinality(asked) <= last_call.limit => ReturnedIds = asked
        /\ \A w \in words :
             (<<uid, w>> \in DOMAIN progress
                /\ progress[<<uid, w>>].next_review_date > now) =>
               w \notin ReturnedIds

\* a query at the very instant word 1 falls due returns it
C7_Witness ==
  /\ Queried /\ <<last_call.user, 1>> \in DOMAIN progress
  /\ progress[<<last_call.user, 1>>].next_review_date = last_call.now
  /\ 1 \in ReturnedIds

\* the rows of key k's word that a due query of k's user returns now
ReturnedNow(k, limit, level) ==
  LET rows == WordsForReview(k[1], limit, level, clock)
  IN  {i \in 1..Len(rows) : rows[i].id = k[2]}
\* the most recent call was an answer to key k
AnswerTo(k, is_correct) ==
  /\ Updated /\ last_call.is_correct = is_correct
  /\ <<last_call.user, last_call.word_id>> = k

\* C8: once a row has a streak of three or more, every step other than a
\* wrong answer to it keeps it retired (streak >= 3, mastery_level 5); a
\* further correct answer strictly increases the streak and sets the next
\* review 365 days after the clock read; and in every state in which the row
\* is retired, no due query returns it.
C8_RetirementPersists ==
  /\ [][\A k \in DOMAIN progress :
          (progress[k].consecutive_correct >= 3 /\ ~AnswerTo(k, FALSE)') =>
            /\ k \in DOMAIN progress'
            /\ progress'[k].mastery_level = 5
            /\ progress'[k].consecutive_correct >= 3
            /\ AnswerTo(k, TRUE)' =>
                 /\ progress'[k].consecutive_correct
                      > progress[k].consecutive_correct
                 /\ progress'[k].next_review_date = clock + 365 * 24 * 60
       ]_vars
  /\ [](\A k \in DOMAIN progress :
          progress[k].consecutive_correct >= 3 =>
            \A n \in Limits, l \in LevelArgs : ReturnedNow(k, n, l) = {})

\* a correct answer to a row that was already retired
C8_Witness ==
  /\ Updated /\ last_call.is_correct
  /\ ReadRow.consecutive_correct = 3
  /\ WrittenRow.consecutive_correct = 4 /\ WrittenRow.mastery_level = 5

\* C9: every stored row with a streak of three or more has mastery_level 5
\* and a next_review_date 365 days after its last_review_date.
C9_RetiredEncoding ==
  \A k \in DOMAIN progress :
    progress[k].consecutive_correct >= 3 =>
      /\ progress[k].mastery_level = 5
      /\ progress[k].next_review_date =
           progress[k].last_review_date + 365 * 24 * 60

\* C10: a row with a streak of three or more is returned by the due query at
\* no instant: not now, not at its next_review_date, not after it.
C10_RetiredNeverDue ==
  \A k \in DOMAIN progress :
    progress[k].consecutive_correct >= 3 =>
      \A now \in {clock, progress[k].next_review_date,
                  progress[k].next_review_date + 1,
                  progress[k].next_review_date + 365 * 24 * 60} :
        \A n \in Limits, l \in LevelArgs :
          LET rows == WordsForReview(k[1], n, l, now)
          IN  \A i \in 1..Len(rows) : rows[i].id # k[2]

\* a query made after the 365-day date of retired word 1 does not return it
C10_Witness ==
  /\ Queried /\ <<last_call.user, 1>> \in DOMAIN progress
  /\ progress[<<last_call.user, 1>>].consecutive_correct >= 3
  /\ progress[<<last_call.user, 1>>].next_review_date < last_call.now
  /\ 1 \notin ReturnedIds /\ 2 \in ReturnedIds

\* the ids a query returned, in the order it returned them
ReturnedSeq == [i \in 1..Len(last_call.rows) |-> last_call.rows[i].id]
\* the words that were eligible for the most recent query
EligibleAtQuery ==
  {w \in words : /\ Selectable(last_call.user, w, last_call.now)
                 /\ LevelMatches(w, last_call.level)}

\* C11: in the result of a due query every never-reviewed word (one without a
\* progress row) comes before every word that has a next_review_date.
C11_NeverReviewedFirst ==
  Queried =>
    \A i, j \in 1..Len(last_call.rows) :
      (/\ ~HasRow(last_call.user, ReturnedSeq[i])
       /\ HasRow(last_call.user, ReturnedSeq[j])) => i < j

C14_LevelFilter ==
  Queried =>
    LET ofLevel == {w \in words :
                      /\ Selectable(last_call.user, w, last_call.now)
                      /\ (last_call.level \in Levels
                            => level_of(w) = last_call.level)}
    IN  /\ last_call.level \in Levels =>
             \A i \in 1..Len(last_call.rows) :
               last_call.rows[i].level = last_call.level
        /\ Len(last_call.rows) = Min(last_call.limit, Cardinality(ofLevel))
        /\ ReturnedIds \subseteq ofLevel

\* word 1 (primary) is eligible and sorts first, yet a query for one junior
\* word returns word 2
C14_Witness ==
  /\ Queried /\ last_call.level = "junior" /\ last_call.limit = 1
  /\ Selectable(last_call.user, 1, last_call.now)
  /\ Len(last_call.rows) = 1 /\ ReturnedSeq[1] = 2

\* a session is in progress: current_index points at a word of the snapshot
InProgress == current_index < Len(current_words)
\* this step ran start_study (the only caller of the due query in a session)
StartStep == last_call'.op = "query" /\ last_call' # last_call

\* C15: in a session the words of the snapshot are shown in the fetched
\* order: the first at the start, then each time the next one; the word shown
\* is replaced, or the session finished, only after it was answered or
\* revealed (none is passed over); and the session finishes only when the
\* last word of the snapshot has been shown.
C15_SessionSequencing ==
  [][/\ StartStep /\ current_words' # <<>> =>
          current_index' = 0 /\ current_word' = current_words'[1]
     /\ current_index' # current_index /\ ~StartStep =>
          /\ current_index' = current_index + 1
          /\ InProgress' => current_word' = current_words'[current_index' + 1]
          /\ InProgress => ~check_button
     /\ InProgress /\ ~InProgress' =>
          /\ current_index = Len(current_words) - 1
          /\ current_word = current_words[Len(current_words)]
          /\ start_button'
    ]_vars

\* C16: while a session is in progress no step changes current_words, and no
\* step evaluates the due query: not an answer, not a reset of the progress.
C16_SnapshotImmutable ==
  [][InProgress => /\ current_words' = current_words
                   /\ ~StartStep]_vars

\* in a session of two words, after the first was answered and the progress
\* then reset, the snapshot still holds both
C16_Witness ==
  /\ InProgress /\ current_index = 1 /\ Len(current_words) = 2
  /\ last_call.op = "reset" /\ study_seq >= 1

\* C17: a session in progress leads to a finished one; when none is in
\* progress the start button is enabled; and start_study never runs while one
\* is in progress.
C17_TerminationRestart ==
  /\ InProgress ~> ~InProgress
  /\ [](~InProgress => start_button)
  /\ [][StartStep => ~InProgress]_vars

\* a second session is in progress after the first one finished
C17_Witness ==
  /\ InProgress /\ ~start_button
  /\ Len(study_records) >= 1 /\ current_index = 0
  /\ last_call.op = "query"

\* the positions of study_records that hold an answer to key k
AnswersTo(k) ==
  {i \in 1..Len(study_records) :
     study_records[i].user_id = k[1] /\ study_records[i].word_id = k[2]}
\* the counters after the answers at the positions S, taken in any order,
\* were applied one after the other to the counters t
RECURSIVE SerialOutcomes(_, _)
SerialOutcomes(t, S) ==
  IF S = {} THEN {t}
  ELSE UNION {SerialOutcomes(Tally(t, study_records[i].is_correct), S \ {i}) :
              i \in S}
\* the counters of a pair that has no row yet
Defaults ==
  [review_count |-> 0, correct_count |-> 0, difficulty |-> 1,
   mastery_level |-> 0, consecutive_correct |-> 0]

\* C18: once no update is under way, the counters of every stored row are
\* those of its recorded answers applied one after the other in some order,
\* starting from the defaults: review_count is the number of answers, and no
\* answer's effect on the streak is lost.
C18_NoLostUpdate ==
  inflight = NoCalls =>
    \A k \in DOMAIN progress :
      /\ progress[k].review_count = Cardinality(AnswersTo(k))
      /\ \E t \in SerialOutcomes(Defaults, AnswersTo(k)) :
           /\ t.review_count = progress[k].review_count
           /\ t.correct_count = progress[k].correct_count
           /\ t.consecutive_correct = progress[k].consecutive_correct
           /\ t.difficulty = progress[k].difficulty

\* C19: an update for (user, word) leaves the row of every other pair as it
\* was and removes none; the table holds the rows it held and the one of the
\* pair answered.
C19_Independence ==
  [][study_seq' # study_seq =>
       LET key == <<last_call'.user, last_call'.word_id>>
       IN  /\ DOMAIN progress' = DOMAIN progress \cup {key}
           /\ \A k \in DOMAIN progress \ {key} : progress'[k] = progress[k]
    ]_vars

\* learner 2 answers word 1 while rows of learner 1 for word 1 and of
\* learner 2 for word 2 are stored
C19_Witness ==
  /\ Updated /\ last_call.user = 2 /\ last_call.word_id = 1
  /\ <<1, 1>> \in DOMAIN progress /\ <<2, 2>> \in DOMAIN progress
  /\ progress[<<1, 1>>].review_count = 1
  /\ progress[<<2, 2>>].review_count = 1

\* C20: update_word_progress on a stored row that violates a field invariant
\* writes nothing: neither a progress row nor a study record.
C20_ValidationFailFast ==
  [][\A k \in DOMAIN progress :
       ~ValidRow(progress[k]) =>
         /\ progress' = progress
         /\ study_records' = study_records
    ]_vars

\* the counters the answer of the most recent update leads to
Tallied == Tally(ReadRow, last_call.is_correct)

\* C21: every update stores last_review_date = now, the clock read its
\* next_review_date was computed from, so that next_review_date minus
\* last_review_date is the interval of the table; the row written is then a
\* function of the row read, the outcome and now.
C21_SingleNow ==
  Updated =>
    /\ WrittenRow.last_review_date = last_call.now
    /\ WrittenRow.next_review_date - WrittenRow.last_review_date
         = ReviewInterval(Tallied, last_call.is_correct)

\* C22: the row an update writes is given by the row read and the outcome
\* alone, whichever the study mode: its counters, difficulty and mastery are
\* those of the tally, its interval that of the table; the mode goes into
\* the study record.
C22_ModeIrrelevant ==
  Updated =>
    /\ WrittenRow.review_count = Tallied.review_count
    /\ WrittenRow.correct_count = Tallied.correct_count
    /\ WrittenRow.consecutive_correct = Tallied.consecutive_correct
    /\ WrittenRow.difficulty = Tallied.difficulty
    /\ WrittenRow.mastery_level = StoredMastery(Tallied)
    /\ WrittenInterval = ReviewInterval(Tallied, last_call.is_correct)
    /\ study_records[Len(study_records)].study_mode = last_call.study_mode
    /\ study_records[Len(study_records)].is_correct = last_call.is_correct

\* a correct answer in meaning mode on a stored row of mastery 2
C22_Witness ==
  /\ Updated /\ last_call.is_correct /\ last_call.study_mode = "meaning"
  /\ last_call.existed /\ ReadRow.mastery_level = 2
  /\ ReadRow.consecutive_correct = 0
  /\ WrittenRow.mastery_level = 3 /\ WrittenInterval = 8 * 60

\* C23: a wrong answer on a retired row (streak >= 3, mastery_level 5) stores
\* streak 0, mastery_level 4 and a next review at most 15 minutes after the
\* clock read; and a row back at streak 0 whose next review has come is
\* returned by the due query.
C23_RetirementRecoverable ==
  /\ (/\ Updated /\ ~last_call.is_correct
      /\ ReadRow.consecutive_correct >= 3 /\ ReadRow.mastery_level = 5) =>
       /\ WrittenRow.consecutive_correct = 0
       /\ WrittenRow.mastery_level = 4
       /\ WrittenInterval >= 0 /\ WrittenInterval <= 15
  /\ \A k \in DOMAIN progress :
       (/\ progress[k].consecutive_correct = 0
        /\ progress[k].correct_count >= 3
        /\ progress[k].next_review_date <= clock) =>
         ReturnedNow(k, 10, "all") # {}

\* word 1 was answered correctly three times, then wrongly, and a query made
\* once its review was due returned it
C23_Witness ==
  /\ Queried /\ 1 \in ReturnedIds
  /\ <<1, 1>> \in DOMAIN progress
  /\ progress[<<1, 1>>].review_count = 4
  /\ progress[<<1, 1>>].correct_count = 3
  /\ progress[<<1, 1>>].consecutive_correct = 0
  /\ progress[<<1, 1>>].mastery_level = 4

\* C24: an update for a pair without a row starts from the counters 0, 0,
\* difficulty 1, mastery 0, streak 0; a first correct answer stores mastery 1,
\* difficulty 1, streak 1 and a next review 20 minutes after the clock read;
\* the due query returns the same defaults for a word without a row.
C24_LazyDefaults ==
  /\ (Updated /\ ~last_call.existed) => ReadRow = Defaults
  /\ (Updated /\ ~last_call.existed /\ last_call.is_correct) =>
       /\ WrittenRow.review_count = 1 /\ WrittenRow.correct_count = 1
       /\ WrittenRow.mastery_level = 1 /\ WrittenRow.difficulty = 1
       /\ WrittenRow.consecutive_correct = 1
       /\ WrittenInterval = 20
  /\ Queried =>
       \A i \in 1..Len(last_call.rows) :
         ~HasRow(last_call.user, last_call.rows[i].id) =>
           /\ last_call.rows[i].review_count = 0
           /\ last_call.rows[i].correct_count = 0
           /\ last_call.rows[i].difficulty = 1
           /\ last_call.rows[i].mastery_level = 0
           /\ last_call.rows[i].consecutive_correct = 0

\* the first answer to word 1, a correct one, created its row
C24_Witness ==
  /\ Updated /\ ~last_call.existed /\ last_call.is_correct
  /\ study_seq = 1
  /\ WrittenRow.next_review_date = last_call.now + 20

\* this step ran update_word_progress to its commit
UpdateStep == study_seq' # study_seq
\* this step ran reset_progress
ResetStep == last_call'.op = "reset" /\ last_call' # last_call

\* C25: a row of user_word_progress is changed or added only by a step of
\* update_word_progress, which removes none, and removed only by a step of
\* reset_progress, which changes none; every other step (the due query and
\* start_study, next_word, finish_study, the statistics) leaves the table as
\* it was.
C25_RecordLifecycle ==
  [][/\ UpdateStep =>
          \A k \in DOMAIN progress :
            /\ k \in DOMAIN progress'
            /\ k # <<last_call'.user, last_call'.word_id>> =>
                 progress'[k] = progress[k]
     /\ ResetStep =>
          \A k \in DOMAIN progress' :
            k \in DOMAIN progress /\ progress'[k] = progress[k]
     /\ (~UpdateStep /\ ~ResetStep) => progress' = progress
    ]_vars

\* after a finished session with two stored rows the statistics were read
C25_Witness ==
  /\ last_call.op = "stats" /\ last_call.studied_words = 2
  /\ ~InProgress /\ start_button
  /\ Cardinality(DOMAIN progress) = 2

\* C26: every update appends one study record with the word, the outcome and
\* the mode of the call, and every step keeps the records already written,
\* in place and unchanged.
C26_AppendOnlyLog ==
  [][/\ UpdateStep =>
          /\ Len(study_records') = Len(study_records) + 1
          /\ study_records'[Len(study_records')].word_id = last_call'.word_id
          /\ study_records'[Len(study_records')].is_correct
               = last_call'.is_correct
          /\ study_records'[Len(study_records')].study_mode
               = last_call'.study_mode
     /\ Len(study_records') >= Len(study_records)
     /\ \A i \in 1..Len(study_records) : study_records'[i] = study_records[i]
    ]_vars

\* C27: a due query with no eligible word returns the empty sequence, and
\* only then; start_study on an empty result starts no session (the buttons,
\* current_index and current_word stay) and changes neither table; a call
\* that failed returned no sequence at all.
C27_EmptyNotError ==
  /\ [](last_call.op = "query" =>
          (last_call.rows = <<>> <=> EligibleAtQuery = {}))
  /\ [](last_call.op = "query_failed" => "rows" \notin DOMAIN last_call)
  /\ [][(StartStep /\ last_call'.rows = <<>>) =>
          /\ ~InProgress'
          /\ start_button' /\ ~check_button' /\ ~show_answer_button'
          /\ current_index' = current_index /\ current_word' = current_word
          /\ progress' = progress /\ study_records' = study_records
       ]_vars

\* both words were answered and are not due; the start button was clicked
\* again and the query came back empty
C27_Witness ==
  /\ last_call.op = "query" /\ last_call.rows = <<>>
  /\ last_call.level = "all"
  /\ Cardinality(DOMAIN progress) = 2
  /\ start_button /\ ~InProgress

\* C28: update_word_progress runs only for a word that is shown and not yet
\* checked or revealed (the check button is still enabled), so once per
\* presentation at most.
C28_OneAdvancePerPresentation ==
  [][UpdateStep => check_button /\ ~check_button']_vars

\* C29: update_word_progress runs only while a session is in progress.
C29_NoAdvanceOutsideSession ==
  [][UpdateStep => InProgress]_vars

\* C30: a submission that is blank after trimming is never judged correct,
\* in spelling mode and in meaning mode alike: the update it makes carries an
\* incorrect outcome.
C30_BlankNeverCorrect ==
  [][UpdateStep /\ Strip(input_text') = <<>> => ~last_call'.is_correct]_vars

\* C31: in every stored row consecutive_correct <= correct_count <=
\* review_count.
C31_CounterChain ==
  \A k \in DOMAIN progress :
    /\ progress[k].consecutive_correct <= progress[k].correct_count
    /\ progress[k].correct_count <= progress[k].review_count

\* a row whose three counters differ: right, wrong and right again
C31_Witness ==
  \E k \in DOMAIN progress :
    /\ 0 < progress[k].consecutive_correct
    /\ progress[k].consecutive_correct < progress[k].correct_count
    /\ progress[k].correct_count < progress[k].review_count

\* the pairs that have a row or a study record
StoredPairs ==
  DOMAIN progress
    \cup {<<study_records[i].user_id, study_records[i].word_id>> :
             i \in 1..Len(study_records)}
\* the counters of a pair, 0 when it has no row
CountOf(k, field) == IF k \in DOMAIN progress THEN progress[k][field] ELSE 0

\* C32: for every (user, word) pair the number of its study records is the
\* review_count of its row and the number of its correct study records is the
\* correct_count, both 0 when the pair has no row.
C32_EventRecordConsistency ==
  \A k \in StoredPairs :
    /\ Cardinality(AnswersTo(k)) = CountOf(k, "review_count")
    /\ Cardinality({i \in AnswersTo(k) : study_records[i].is_correct})
         = CountOf(k, "correct_count")

C34_RetirementAbsorbing ==
  [][UpdateStep => last_call'.old.consecutive_correct < 3]_vars

\* the row of word 1 is stored and not retired
Active == HasRow(1, 1) /\ progress[<<1, 1>>].consecutive_correct < 3
Retired == HasRow(1, 1) /\ progress[<<1, 1>>].consecutive_correct >= 3

\* C35: every stored row with consecutive_correct < 3 has its
\* next_review_date at most 2 days after its last_review_date, and as the
\* clock advances every such word comes to satisfy the due query's condition
\* again (unless it has been retired by then).
C35_BoundedReturn ==
  /\ [](\A k \in DOMAIN progress :
          progress[k].consecutive_correct < 3 =>
            progress[k].next_review_date - progress[k].last_review_date
              <= days(2))
  /\ (Active ~> (Retired \/ Selectable(1, 1, clock)))

\* after the longest interval of an active row, two days, the word is
\* returned by the due query
C35_Witness ==
  /\ Queried /\ 1 \in ReturnedIds
  /\ Active
  /\ progress[<<1, 1>>].next_review_date
       - progress[<<1, 1>>].last_review_date \in {days(2), days(2) - 1}

\* C36: a confirmed reset_progress removes every row and every study record
\* of the current user and leaves those of every other user as they were;
\* after it every word satisfies the due query's condition for that user and
\* is read with the counters of a never-reviewed word, whether or not it had
\* been retired.
C36_ResetFrame ==
  [][last_call'.op = "reset" =>
       LET u == current_user_id
       IN  /\ \A k \in DOMAIN progress' : k[1] # u
           /\ \A k \in DOMAIN progress :
                k[1] # u => k \in DOMAIN progress' /\ progress'[k] = progress[k]
           /\ study_records'
                = SelectSeq(study_records, LAMBDA r : r.user_id # u)
           /\ \A w \in words :
                /\ Selectable(u, w, clock)'
                /\ ReadProgress(u, w)' = Defaults
    ]_vars

\* learner 1 has reset the own progress after three answers; the row and the
\* study record of learner 2 are still there
C36_Witness ==
  /\ last_call.op = "reset" /\ last_call.user = 1
  /\ study_seq = 4
  /\ DOMAIN progress = {<<2, 1>>}
  /\ Len(study_records) = 1 /\ study_records[1].user_id = 2

\* this step ran show_answer on the word on show
RevealStep == UpdateStep /\ result_label' = "answer"

\* C37: show_answer makes exactly one update of the word on show, with an
\* incorrect outcome (streak 0, mastery one lower, difficulty one higher,
\* within their ranges), and while the revealed answer is on show no update
\* records a correct outcome for that word.
C37_RevealIsMistake ==
  [][/\ RevealStep =>
          LET row == progress'[<<current_user_id, current_word.id>>]
              old == last_call'.old
          IN  /\ study_seq' = study_seq + 1
              /\ last_call'.word_id = current_word.id
              /\ ~last_call'.is_correct
              /\ row.review_count = old.review_count + 1
              /\ row.consecutive_correct = 0
              /\ row.mastery_level = Max(0, old.mastery_level - 1)
              /\ row.difficulty = Min(5, old.difficulty + 1)
     /\ UpdateStep /\ result_label = "answer" => ~last_call'.is_correct
    ]_vars

\* C38: while current_user_id is None, get_words_for_review returns the
\* empty sequence and update_word_progress writes no row and no study
\* record: the tables stay as they were.
C38_NoLearnerGuard ==
  [][current_user_id = None /\ last_call'.op \in {"update", "query"} =>
       /\ UNCHANGED <<words, progress, study_records, study_seq>>
       /\ last_call'.op = "query" => last_call'.rows = <<>>
    ]_vars

\* update_word_progress was called with nobody logged in, on a store that
\* holds a row and a study record of an earlier learner
C38_Witness ==
  /\ current_user_id = None
  /\ last_call.op = "update" /\ last_call.user = None
  /\ DOMAIN progress # {} /\ study_records # <<>>

\* a worker that is creating an engine or playing
Busy(t) == speak_thread[t] \in {"create", "play"}

\* C39: at most one speak_thread worker is creating an engine or playing at
\* a time, and _speaking is never cleared while a worker is still creating
\* an engine or playing.
C39_PlaybackExclusion ==
  /\ [](Cardinality({t \in Threads : Busy(t)}) <= 1)
  /\ [][speaking /\ ~speaking' => \A t \in Threads : ~Busy(t)]_vars

=============================================================================
